---- MODULE Spec2Model ----
(***************************************************************************)
(* Model of tools/sudachi_tokenize.py: a stdin/stdout filter around an     *)
(* external tokenizer, with a one-shot mode and a streaming mode.          *)
(*                                                                         *)
(* Text is modelled character by character.  The alphabet is small:       *)
(*   "x"    an ordinary character                                          *)
(*   "LF"   the newline character \n                                       *)
(*   "CR"   the carriage return character \r                               *)
(*   "D"    the 21 characters ---SUDACHI_DOC_END---, taken as one unit     *)
(*   "BAD"  a maximal malformed (non UTF-8) byte sequence (stdin only)     *)
(*   "FFFD" U+FFFD, what errors="replace" decodes "BAD" to                 *)
(*   "SURR" a lone surrogate, what errors="surrogateescape" decodes it to  *)
(***************************************************************************)
EXTENDS Naturals, Sequences, FiniteSets

VARIABLES
    argv,           \* sys.argv[1:], the command line arguments
    newlineMode,    \* sys.stdin's newline handling: "lf" (POSIX) or "universal" (Windows)
    errorsMode,     \* sys.stdin's error handler: "strict" or "surrogateescape"
    input,          \* all the bytes the caller writes to stdin during the run
    pos,            \* how many of them the process has consumed
    pc,             \* where the process is
    buffer,         \* run_stream_mode's list of lines
    text,           \* the local variable text
    calls,          \* the texts tokenize was called with, in order
    events,         \* what the print statements were executed for, in order
    stdoutBuf,      \* characters written to sys.stdout and not yet flushed
    stdoutVisible,  \* characters the calling process can read
    raised          \* the uncaught exception, "none" while there is none

vars == <<argv, newlineMode, errorsMode, input, pos, pc, buffer, text, calls,
          events, stdoutBuf, stdoutVisible, raised>>

\* ------------------------------------------------------------------ bounds

MaxLen == 5

\* ------------------------------------------------------------------ characters

LF == "LF"
CR == "CR"
BAD == "BAD"
FFFD == "FFFD"
SURR == "SURR"

InputAlphabet == {"x", LF, CR, "D", BAD}

\* str.strip() without arguments removes whitespace; of the alphabet, \n and \r
Whitespace == {LF, CR}

DELIM == <<"D">>

Inputs == UNION {[1..n -> InputAlphabet] : n \in 0..MaxLen}

ArgvChoices == {<<>>, <<"--stream">>, <<"--other">>}

\* ------------------------------------------------------------------ pure helpers

RECURSIVE RStripChars(_, _)
RStripChars(s, chars) ==
    IF s # <<>> /\ s[Len(s)] \in chars
    THEN RStripChars(SubSeq(s, 1, Len(s) - 1), chars)
    ELSE s

RECURSIVE LStripChars(_, _)
LStripChars(s, chars) ==
    IF s # <<>> /\ s[1] \in chars
    THEN LStripChars(Tail(s), chars)
    ELSE s

\* line.rstrip("\n\r")
RStripLine(line) == RStripChars(line, {LF, CR})

\* str.strip()
Strip(s) == LStripChars(RStripChars(s, Whitespace), Whitespace)

\* "\n".join(lines)
RECURSIVE Join(_)
Join(lines) ==
    IF lines = <<>> THEN <<>>
    ELSE IF Len(lines) = 1 THEN lines[1]
    ELSE lines[1] \o <<LF>> \o Join(Tail(lines))

\* bytes.decode("utf-8", errors="replace")
DecodeReplace(bytes) == [i \in 1..Len(bytes) |-> IF bytes[i] = BAD THEN FFFD ELSE bytes[i]]

\* sys.stdin's decoder under errors="surrogateescape"
DecodeSurrogateEscape(bytes) ==
    [i \in 1..Len(bytes) |-> IF bytes[i] = BAD THEN SURR ELSE bytes[i]]

\* ------------------------------------------------------------------ sys.stdin

\* for line in sys.stdin: the index of the last byte of the line that starts
\* after byte p.  With newline="\n" a line ends at \n; in universal newlines
\* mode it ends at \n, at \r or at \r\n.  The last line ends at end of input.
RECURSIVE LineEnd(_, _, _)
LineEnd(bytes, p, nl) ==
    IF p + 1 >= Len(bytes) THEN Len(bytes)
    ELSE IF bytes[p + 1] = LF THEN p + 1
    ELSE IF nl = "universal" /\ bytes[p + 1] = CR
         THEN IF bytes[p + 2] = LF THEN p + 2 ELSE p + 1
    ELSE LineEnd(bytes, p + 1, nl)

\* universal newlines mode translates the line terminator to \n
TranslateNewline(raw, nl) ==
    IF nl = "universal" /\ raw # <<>> /\ raw[Len(raw)] \in {LF, CR}
    THEN RStripChars(raw, {LF, CR}) \o <<LF>>
    ELSE raw

\* the str the iterator yields for the line that starts after byte p
NextLine(bytes, p, nl) ==
    TranslateNewline(DecodeSurrogateEscape(SubSeq(bytes, p + 1, LineEnd(bytes, p, nl))), nl)

HasBad(bytes, from, to) == \E i \in from..to : bytes[i] = BAD

\* ------------------------------------------------------------------ tokenizer

\* The external tokenizer cuts the text into consecutive pieces (surfaces).
RECURSIVE Segmentations(_)
Segmentations(t) ==
    IF t = <<>> THEN {<<>>}
    ELSE UNION {{<<SubSeq(t, 1, k)>> \o r : r \in Segmentations(SubSeq(t, k + 1, Len(t)))} :
                k \in 1..Len(t)}

\* what tokenize(text, mode) may return, m.surface() taken of each morpheme:
\* any segmentation, or the text as one morpheme after a morpheme whose
\* surface is empty
Tokenizations(t) == Segmentations(t) \cup {<<<<>>, t>>}

\* ------------------------------------------------------------------ sys.stdout

\* print(s): the characters of s, then \n
PrintLine(out, s) == out \o s \o <<LF>>

\* for m in ...: surface = m.surface(); if surface: print(surface)
RECURSIVE PrintSurfaces(_, _)
PrintSurfaces(out, surfaces) ==
    IF surfaces = <<>> THEN out
    ELSE PrintSurfaces(IF surfaces[1] # <<>> THEN PrintLine(out, surfaces[1]) ELSE out,
                       Tail(surfaces))

\* a slip: the text tested without strip()
TruthyNoStrip(t) == t # <<>>

\* if text.strip(): / if not text:
Truthy(t) == Strip(t) # <<>>

\* a slip: the input decoded and not stripped
OneshotTextNoStrip(bytes) == DecodeReplace(bytes)

\* sys.stdin.buffer.read().decode("utf-8", errors="replace").strip()
OneshotText(bytes) == Strip(DecodeReplace(bytes))

\* a slip: any argument selects the streaming mode
AnyArgumentStreams(args) == Len(args) > 0

\* len(sys.argv) > 1 and sys.argv[1] == "--stream"
UseStreamMode(args) == Len(args) > 0 /\ args[1] = "--stream"

\* ------------------------------------------------------------------ the program

Init ==
    /\ argv \in ArgvChoices
    /\ newlineMode \in {"lf", "universal"}
    /\ errorsMode \in {"strict", "surrogateescape"}
    \* only run_stream_mode reads through sys.stdin's text layer: the runs of
    \* run_oneshot are the same under every setting of it, one is kept
    /\ UseStreamMode(argv) \/ (newlineMode = "lf" /\ errorsMode = "strict")
    /\ input \in Inputs
    /\ pos = 0
    /\ pc = "main"
    /\ buffer = <<>>
    /\ text = <<>>
    /\ calls = <<>>
    /\ events = <<>>
    /\ stdoutBuf = <<>>
    /\ stdoutVisible = <<>>
    /\ raised = "none"

Env == <<argv, newlineMode, errorsMode, input>>

\* main(): the choice of the mode
Main ==
    /\ pc = "main"
    /\ pc' = IF UseStreamMode(argv) THEN "read" ELSE "oneshot"
    /\ UNCHANGED <<Env, pos, buffer, text, calls, events, stdoutBuf, stdoutVisible, raised>>

CanDecode(p, e) == errorsMode = "surrogateescape" \/ ~HasBad(input, p + 1, e)

\* one iteration of the loop whose line is not the delimiter
StreamReadLine ==
    /\ pc = "read"
    /\ pos < Len(input)
    /\ LET e == LineEnd(input, pos, newlineMode)
           line == RStripLine(NextLine(input, pos, newlineMode))
       IN  /\ CanDecode(pos, e)
           /\ line # DELIM
           /\ buffer' = Append(buffer, line)
           /\ pos' = e
    /\ UNCHANGED <<Env, pc, text, calls, events, stdoutBuf, stdoutVisible, raised>>

\* a slip: the buffer is not cleared at a delimiter line
StreamReadDelimKeepBuffer ==
    /\ pc = "read"
    /\ pos < Len(input)
    /\ LET e == LineEnd(input, pos, newlineMode)
           line == RStripLine(NextLine(input, pos, newlineMode))
       IN  /\ CanDecode(pos, e)
           /\ line = DELIM
           /\ text' = Join(buffer)
           /\ pos' = e
           /\ pc' = "doc"
    /\ UNCHANGED <<Env, buffer, calls, events, stdoutBuf, stdoutVisible, raised>>

\* the start of an iteration whose line is the delimiter
StreamReadDelim ==
    /\ pc = "read"
    /\ pos < Len(input)
    /\ LET e == LineEnd(input, pos, newlineMode)
           line == RStripLine(NextLine(input, pos, newlineMode))
       IN  /\ CanDecode(pos, e)
           /\ line = DELIM
           /\ text' = Join(buffer)
           /\ buffer' = <<>>
           /\ pos' = e
           /\ pc' = "doc"
    /\ UNCHANGED <<Env, calls, events, stdoutBuf, stdoutVisible, raised>>

\* sys.stdin's strict decoder meets a malformed sequence in the bytes it
\* has read ahead: UnicodeDecodeError, uncaught
StreamDecodeError ==
    /\ pc = "read"
    /\ errorsMode = "strict"
    /\ HasBad(input, pos + 1, Len(input))
    /\ raised' = "decode"
    /\ pc' = "crashed"
    /\ stdoutVisible' = stdoutVisible \o stdoutBuf
    /\ stdoutBuf' = <<>>
    /\ UNCHANGED <<Env, pos, buffer, text, calls, events>>

StreamTokenize ==
    /\ pc = "doc"
    /\ Truthy(text)
    /\ \E surfaces \in Tokenizations(text) :
        /\ calls' = Append(calls, text)
        /\ events' = Append(events, [kind |-> "tokens", surfaces |-> surfaces])
        /\ stdoutBuf' = PrintSurfaces(stdoutBuf, surfaces)
    /\ pc' = "echo"
    /\ UNCHANGED <<Env, pos, buffer, text, stdoutVisible, raised>>

\* a slip: the tokenizer's exception is swallowed and the loop goes on
StreamTokenizeFailCaught ==
    /\ pc = "doc"
    /\ Truthy(text)
    /\ calls' = Append(calls, text)
    /\ raised' = "tokenizer"
    /\ pc' = "echo"
    /\ UNCHANGED <<Env, pos, buffer, text, events, stdoutBuf, stdoutVisible>>

\* tokenize raises: nothing catches it, the interpreter flushes and exits
StreamTokenizeFail ==
    /\ pc = "doc"
    /\ Truthy(text)
    /\ calls' = Append(calls, text)
    /\ raised' = "tokenizer"
    /\ pc' = "crashed"
    /\ stdoutVisible' = stdoutVisible \o stdoutBuf
    /\ stdoutBuf' = <<>>
    /\ UNCHANGED <<Env, pos, buffer, text, events>>

StreamSkipBlank ==
    /\ pc = "doc"
    /\ ~Truthy(text)
    /\ pc' = "echo"
    /\ UNCHANGED <<Env, pos, buffer, text, calls, events, stdoutBuf, stdoutVisible, raised>>

\* a slip: the delimiter printed without flush=True
StreamEchoNoFlush ==
    /\ pc = "echo"
    /\ events' = Append(events, [kind |-> "echo", surfaces |-> <<>>])
    /\ stdoutBuf' = PrintLine(stdoutBuf, DELIM)
    /\ pc' = "read"
    /\ UNCHANGED <<Env, pos, buffer, text, calls, stdoutVisible, raised>>

\* print(DELIM, flush=True)
StreamEcho ==
    /\ pc = "echo"
    /\ events' = Append(events, [kind |-> "echo", surfaces |-> <<>>])
    /\ stdoutVisible' = stdoutVisible \o PrintLine(stdoutBuf, DELIM)
    /\ stdoutBuf' = <<>>
    /\ pc' = "read"
    /\ UNCHANGED <<Env, pos, buffer, text, calls, raised>>

\* end of input ends the loop
StreamReadEOF ==
    /\ pc = "read"
    /\ pos = Len(input)
    /\ pc' = "eof"
    /\ UNCHANGED <<Env, pos, buffer, text, calls, events, stdoutBuf, stdoutVisible, raised>>

\* after the loop: the lines left in the buffer
FinalTokenize ==
    /\ pc = "eof"
    /\ buffer # <<>>
    /\ Truthy(Join(buffer))
    /\ text' = Join(buffer)
    /\ \E surfaces \in Tokenizations(Join(buffer)) :
        /\ calls' = Append(calls, Join(buffer))
        /\ events' = Append(events, [kind |-> "tokens", surfaces |-> surfaces])
        /\ stdoutVisible' = stdoutVisible \o PrintSurfaces(stdoutBuf, surfaces)
    /\ stdoutBuf' = <<>>
    /\ pc' = "done"
    /\ UNCHANGED <<Env, pos, buffer, raised>>

FinalTokenizeFail ==
    /\ pc = "eof"
    /\ buffer # <<>>
    /\ Truthy(Join(buffer))
    /\ text' = Join(buffer)
    /\ calls' = Append(calls, Join(buffer))
    /\ raised' = "tokenizer"
    /\ pc' = "crashed"
    /\ stdoutVisible' = stdoutVisible \o stdoutBuf
    /\ stdoutBuf' = <<>>
    /\ UNCHANGED <<Env, pos, buffer, events>>

FinalSkip ==
    /\ pc = "eof"
    /\ \/ buffer = <<>>
       \/ /\ buffer # <<>>
          /\ ~Truthy(Join(buffer))
    /\ text' = IF buffer = <<>> THEN text ELSE Join(buffer)
    /\ stdoutVisible' = stdoutVisible \o stdoutBuf
    /\ stdoutBuf' = <<>>
    /\ pc' = "done"
    /\ UNCHANGED <<Env, pos, buffer, calls, events, raised>>

\* run_oneshot: read everything, decode, strip; return when nothing is left
OneshotRead ==
    /\ pc = "oneshot"
    /\ text' = OneshotText(input)
    /\ pos' = Len(input)
    /\ pc' = IF OneshotText(input) = <<>> THEN "done" ELSE "oneshot_tokenize"
    /\ UNCHANGED <<Env, buffer, calls, events, stdoutBuf, stdoutVisible, raised>>

OneshotTokenize ==
    /\ pc = "oneshot_tokenize"
    /\ \E surfaces \in Tokenizations(text) :
        /\ calls' = Append(calls, text)
        /\ events' = Append(events, [kind |-> "tokens", surfaces |-> surfaces])
        /\ stdoutVisible' = stdoutVisible \o PrintSurfaces(stdoutBuf, surfaces)
    /\ stdoutBuf' = <<>>
    /\ pc' = "done"
    /\ UNCHANGED <<Env, pos, buffer, text, raised>>

OneshotTokenizeFail ==
    /\ pc = "oneshot_tokenize"
    /\ calls' = Append(calls, text)
    /\ raised' = "tokenizer"
    /\ pc' = "crashed"
    /\ UNCHANGED <<Env, pos, buffer, text, events, stdoutBuf, stdoutVisible>>

Next ==
    \/ Main
    \/ StreamReadLine
    \/ StreamReadDelim
    \/ StreamDecodeError
    \/ StreamTokenize
    \/ StreamTokenizeFail
    \/ StreamSkipBlank
    \/ StreamEcho
    \/ StreamReadEOF
    \/ FinalTokenize
    \/ FinalTokenizeFail
    \/ FinalSkip
    \/ OneshotRead
    \/ OneshotTokenize
    \/ OneshotTokenizeFail

Spec == Init /\ [][Next]_vars

\* ------------------------------------------------------------------ what the claims speak of

\* how the process was invoked, read off the command line
StreamInvocation == argv # <<>> /\ argv[1] = "--stream"
OneshotInvocation == ~StreamInvocation

StdoutAll == stdoutVisible \o stdoutBuf

IndexOfLF(s) == IF \E i \in 1..Len(s) : s[i] = LF
                THEN CHOOSE i \in 1..Len(s) : s[i] = LF /\ \A j \in 1..(i - 1) : s[j] # LF
                ELSE 0

\* the lines a reader of stdout sees
RECURSIVE OutLines(_)
OutLines(out) ==
    IF out = <<>> THEN <<>>
    ELSE IF IndexOfLF(out) = 0 THEN <<out>>
    ELSE <<SubSeq(out, 1, IndexOfLF(out) - 1)>>
         \o OutLines(SubSeq(out, IndexOfLF(out) + 1, Len(out)))

NonEmpty(s) == s # <<>>

\* one line per token with a non-empty surface, one delimiter line per echo
RECURSIVE ExpectedLines(_)
ExpectedLines(evs) ==
    IF evs = <<>> THEN <<>>
    ELSE (IF evs[1].kind = "echo" THEN <<DELIM>> ELSE SelectSeq(evs[1].surfaces, NonEmpty))
         \o ExpectedLines(Tail(evs))

RECURSIVE Flatten(_)
Flatten(ss) == IF ss = <<>> THEN <<>> ELSE ss[1] \o <<LF>> \o Flatten(Tail(ss))

\* the characters the print statements of the events put on stdout
Render(evs) == Flatten(ExpectedLines(evs))

CountOf(seq, v) == Cardinality({i \in 1..Len(seq) : seq[i] = v})

IsEcho(ev) == ev.kind = "echo"
IsTokens(ev) == ev.kind = "tokens"
EchoCount == Len(SelectSeq(events, IsEcho))
TokensCount == Len(SelectSeq(events, IsTokens))

\* the lines of a character stream, as a line reader cuts it
RECURSIVE SplitAcc(_, _, _)
SplitAcc(chars, cur, nl) ==
    IF chars = <<>> THEN (IF cur = <<>> THEN <<>> ELSE <<cur>>)
    ELSE IF chars[1] = LF THEN <<cur>> \o SplitAcc(Tail(chars), <<>>, nl)
    ELSE IF nl = "universal" /\ chars[1] = CR
         THEN <<cur>> \o SplitAcc(IF Len(chars) > 1 /\ chars[2] = LF
                                  THEN Tail(Tail(chars)) ELSE Tail(chars), <<>>, nl)
    ELSE SplitAcc(Tail(chars), Append(cur, chars[1]), nl)

TrimCR(line) == IF line # <<>> /\ line[Len(line)] = CR
                THEN RStripChars(line, {CR}) ELSE line

\* the stdin lines consumed so far, their trailing \n and \r removed
LinesOf(bytes, nl) ==
    LET ls == SplitAcc([i \in 1..Len(bytes) |-> IF bytes[i] = BAD THEN SURR ELSE bytes[i]],
                       <<>>, nl)
    IN  [i \in 1..Len(ls) |-> TrimCR(ls[i])]

ConsumedLines == LinesOf(SubSeq(input, 1, pos), newlineMode)

DelimsConsumed == CountOf(ConsumedLines, DELIM)

\* the documents the consumed delimiter lines have closed, each a list of lines
RECURSIVE ClosedDocs(_, _)
ClosedDocs(ls, cur) ==
    IF ls = <<>> THEN <<>>
    ELSE IF ls[1] = DELIM THEN <<cur>> \o ClosedDocs(Tail(ls), <<>>)
    ELSE ClosedDocs(Tail(ls), Append(cur, ls[1]))

\* the lines consumed after the last delimiter line
RECURSIVE OpenDoc(_, _)
OpenDoc(ls, cur) ==
    IF ls = <<>> THEN cur
    ELSE IF ls[1] = DELIM THEN OpenDoc(Tail(ls), <<>>)
    ELSE OpenDoc(Tail(ls), Append(cur, ls[1]))

NonBlank(t) == \E i \in 1..Len(t) : t[i] \notin Whitespace

JoinedDocs(docs) == [i \in 1..Len(docs) |-> Join(docs[i])]

\* t is s without its leading and trailing whitespace
IsStripOf(t, s) ==
    /\ \E a \in 0..Len(s) : \E b \in a..Len(s) :
        /\ t = SubSeq(s, a + 1, b)
        /\ \A i \in 1..a : s[i] \in Whitespace
        /\ \A i \in (b + 1)..Len(s) : s[i] \in Whitespace
    /\ t # <<>> => t[1] \notin Whitespace /\ t[Len(t)] \notin Whitespace

HasSurface(ev) == \E i \in 1..Len(ev.surfaces) : ev.surfaces[i] # <<>>

\* ------------------------------------------------------------------ claims

\* C1: in streaming mode every document whose tokens were printed has the
\* delimiter printed right after its tokens, before any later document's
\* tokens and before the process exits, whatever the input.
C1_DelimiterFollowsEveryDocument ==
    (StreamInvocation /\ pc \in {"done", "crashed"}) =>
        \A i \in 1..Len(events) :
            (IsTokens(events[i]) /\ HasSurface(events[i])) =>
                (i < Len(events) /\ IsEcho(events[i + 1]))

\* C2: the lines on stdout are exactly one line per token with a non-empty
\* surface, in the tokenizer's order, and one line per echoed delimiter;
\* no token gives two lines or an empty line.
C2_OneLinePerToken == OutLines(StdoutAll) = ExpectedLines(events)

\* C3 as stated: in one-shot mode the tokenizer is called at most once, on
\* the entire decoded input, and the program echoes no delimiter.
C3_OneshotWholeInput ==
    OneshotInvocation =>
        /\ Len(calls) <= 1
        /\ \A i \in 1..Len(calls) : calls[i] = DecodeReplace(input)
        /\ EchoCount = 0

\* C3 as amended: in one-shot mode the tokenizer is called at most once, on
\* the entire decoded input without its leading and trailing whitespace (a
\* delimiter line inside it is kept and splits nothing), it is called when
\* that text is not empty, and the program echoes no delimiter.
C3_OneshotStrippedInput ==
    OneshotInvocation =>
        /\ Len(calls) <= 1
        /\ \A i \in 1..Len(calls) : IsStripOf(calls[i], DecodeReplace(input))
        /\ EchoCount = 0
        /\ (pc = "done" /\ NonBlank(DecodeReplace(input))) => Len(calls) = 1

C3_Witness ==
    /\ OneshotInvocation
    /\ pc = "done"
    /\ Len(calls) = 1
    /\ CountOf(LinesOf(input, "lf"), DELIM) >= 1
    /\ 1 < Len(calls[1])
    /\ Len(calls[1]) < Len(input)
    /\ \E i \in 1..Len(calls[1]) : calls[1][i] = "D"

\* C4: in streaming mode a failing tokenize call ends the process with the
\* error; stdout holds exactly the output of the earlier documents, all of
\* it ending in their delimiter lines, nothing is printed for the failing
\* document, and the last line consumed is the one that closed it.
C4_TokenizerFailureStops ==
    (StreamInvocation /\ raised = "tokenizer") =>
        /\ pc = "crashed"
        /\ stdoutBuf = <<>>
        /\ stdoutVisible = Render(events)
        /\ TokensCount = Len(calls) - 1
        /\ events # <<>> => IsEcho(events[Len(events)])
        /\ LET ls == ConsumedLines
               docs == ClosedDocs(ls, <<>>)
               open == OpenDoc(ls, <<>>)
           IN  \/ /\ ls # <<>>
                  /\ ls[Len(ls)] = DELIM
                  /\ calls[Len(calls)] = Join(docs[Len(docs)])
                  /\ EchoCount = DelimsConsumed - 1
               \/ /\ pos = Len(input)
                  /\ open # <<>>
                  /\ calls[Len(calls)] = Join(open)
                  /\ EchoCount = DelimsConsumed

C4_Witness ==
    /\ StreamInvocation
    /\ raised = "tokenizer"
    /\ pc = "crashed"
    /\ EchoCount >= 1
    /\ TokensCount >= 1
    /\ Len(calls) >= 2
    /\ stdoutVisible # <<>>

\* C5: reading stdin never ends the run with a decoding error.
C5_NoDecodingError == raised # "decode"

\* C6: in streaming mode the buffer holds exactly the lines consumed since the
\* last delimiter line, stripped of trailing \n and \r, never a delimiter
\* line; it is empty once a delimiter line is handled; the text of a document
\* is its lines joined with \n, and the tokenizer is called with the texts of
\* the non-blank documents, one call each, in order.
C6_BufferIsOpenDocument ==
    (StreamInvocation /\ pc # "main") =>
        LET ls == ConsumedLines
            docs == ClosedDocs(ls, <<>>)
            open == OpenDoc(ls, <<>>)
            handled == IF pc = "doc" THEN SubSeq(docs, 1, Len(docs) - 1) ELSE docs
            last == IF pc = "done" \/ (pc = "crashed" /\ raised = "tokenizer")
                    THEN <<Join(open)>> ELSE <<>>
        IN  /\ buffer = open
            /\ \A i \in 1..Len(buffer) : buffer[i] # DELIM
            /\ pc \in {"doc", "echo"} => buffer = <<>>
            /\ pc = "doc" => text = Join(docs[Len(docs)])
            /\ calls = SelectSeq(JoinedDocs(handled) \o last, NonBlank)

C6_Witness ==
    /\ StreamInvocation
    /\ pc = "read"
    /\ DelimsConsumed >= 1
    /\ Len(calls) >= 1
    /\ Len(buffer) >= 1

\* C7: in streaming mode, whenever the process is about to read a line and at
\* its normal exit, stdout holds as many delimiter lines as delimiter lines
\* were consumed from stdin.
C7_DelimiterLinesMatch ==
    (StreamInvocation /\ pc \in {"read", "eof", "done"}) =>
        CountOf(OutLines(StdoutAll), DELIM) = DelimsConsumed

C9_NeverBlankText ==
    /\ \A i \in 1..Len(calls) : NonBlank(calls[i])
    /\ TokensCount <= Len(calls)
    /\ (StreamInvocation /\ pc = "echo" /\ ~NonBlank(text)) => stdoutBuf = <<>>
    /\ (OneshotInvocation /\ pc = "done" /\ ~NonBlank(DecodeReplace(input))) =>
           (calls = <<>> /\ StdoutAll = <<>>)

C9_Witness ==
    /\ StreamInvocation
    /\ pc = "echo"
    /\ text # <<>>
    /\ ~NonBlank(text)
    /\ calls = <<>>

\* the input is a document D followed by one delimiter line
SingleDocLen == IF input # <<>> /\ input[Len(input)] = "D" THEN Len(input) - 1
                ELSE IF Len(input) > 1 /\ input[Len(input)] = LF
                        /\ input[Len(input) - 1] = "D" THEN Len(input) - 2
                ELSE MaxLen + 1

SingleDoc == SubSeq(input, 1, SingleDocLen)

IsSingleDocInput ==
    /\ SingleDocLen <= MaxLen
    /\ SingleDoc = <<>> \/ SingleDoc[Len(SingleDoc)] = LF
    /\ CountOf(LinesOf(SingleDoc, newlineMode), DELIM) = 0

SingleDocAnswered ==
    /\ StreamInvocation
    /\ IsSingleDocInput
    /\ pc \in {"echo", "read", "eof", "done"}
    /\ pos = Len(input)

\* C10 as stated: for well-formed D, the text streaming mode passes for D
\* followed by a delimiter line is the text one-shot mode passes for D alone
\* (and neither calls the tokenizer when the other does not).
C10_ModesAgree ==
    (SingleDocAnswered /\ \A i \in 1..Len(SingleDoc) : SingleDoc[i] # BAD) =>
        calls = IF OneshotText(SingleDoc) = <<>> THEN <<>> ELSE <<OneshotText(SingleDoc)>>

\* C10 as amended: for D without \r and without malformed bytes, streaming
\* mode calls the tokenizer exactly when one-shot mode does, and the one-shot
\* text is the streaming text without its leading and trailing whitespace.
C10_ModesAgreeUpToStrip ==
    (SingleDocAnswered /\ \A i \in 1..Len(SingleDoc) : SingleDoc[i] \notin {CR, BAD}) =>
        /\ Len(calls) = IF OneshotText(SingleDoc) = <<>> THEN 0 ELSE 1
        /\ \A i \in 1..Len(calls) : IsStripOf(OneshotText(SingleDoc), calls[i])

C10_Witness ==
    /\ SingleDocAnswered
    /\ \A i \in 1..Len(SingleDoc) : SingleDoc[i] \notin {CR, BAD}
    /\ pc = "read"
    /\ Len(calls) = 1
    /\ calls[1] # OneshotText(SingleDoc)

====
